---- MODULE Spec2Model ----
(***************************************************************************)
(* Order status lifecycle engine of track_backend (src/order_routes.py):   *)
(* the orders and order_events tables, the two creation handlers, the      *)
(* PATCH /update-order handler and the PATCH /registro-entrega handler.    *)
(*                                                                         *)
(* Every handler is a pure operator from the committed tables and the      *)
(* request to a unit of work (the rows it loaded, the values it assigned,  *)
(* the events it added, the HTTP answer).  Spec runs each request to       *)
(* completion in one step.  SpecConc lets requests overlap: a request      *)
(* reads the committed tables when it starts and its db.commit() writes    *)
(* later, as the SQLAlchemy session of src/db.py does over a               *)
(* read-committed store.  SpecRead adds the two GET handlers to Spec, and  *)
(* SpecFluxo runs the slug-keyed flow engine aplicar_transicao_status on   *)
(* the orders the creation handlers made.                                  *)
(***************************************************************************)
EXTENDS Integers, Sequences, FiniteSets, TLC

VARIABLES orders, events, clock, last, inflight

vars == <<orders, events, clock, last, inflight>>

(***************************************************************************)
(* Bounds of the model.                                                    *)
(***************************************************************************)
MaxOrders == 3
MaxClock == 5
MaxInflight == 2
MaxConcClock == 4

(***************************************************************************)
(* Column values.                                                          *)
(***************************************************************************)
NULL == 0
NoServico == "none"
PackageCodes == {"BR1", "BR2"}

(* mt.users rows (held fixed): user_id -> owner_id, tipo *)
UserIds == {1, 2, 3}
UserOwner(u) == IF u \in {1, 2} THEN 1 ELSE 2
UserTipo(u) == IF u = 1 THEN "ADMIN" ELSE "ENTREGADOR"

(* mt.cliente rows (held fixed): id_cliente -> owner_id, tipo_cliente *)
ClienteIds == {1, 2, 3}
ClienteOwner(c) == IF c \in {1, 2} THEN 1 ELSE 2
ClienteTipo(c) == IF c = 2 THEN "VENDEDOR" ELSE "PRESTADOR"

(* A row of mt.orders and a row of mt.order_events. *)
Order(id, owner, cliente, codigo, servico, st, agora, user) ==
    [order_id |-> id, owner_id |-> owner, cliente_id |-> cliente,
     codigo_pacote |-> codigo, servico |-> servico, status |-> st,
     atualizado_em |-> agora, user_id |-> user]

OrderEvent(oid, tipo, actor, agora, owner) ==
    [order_id |-> oid, tipo |-> tipo, actor_user_id |-> actor,
     data_hora |-> agora, owner_id |-> owner]

(* The ids a payload may name: those of the rows above and one of no row. *)
PayloadIds == 1..4

(* Request payloads. *)
OrderCreate ==
    [codigo_pacote : PackageCodes, cliente_id : ClienteIds,
     user_id : {NULL}, servico : {"s1"}]

OrderUpdate ==
    [codigo_pacote : PackageCodes, cliente_id : {NULL} \cup PayloadIds,
     user_id : {NULL} \cup PayloadIds, servico : {NoServico, "s2"}]

(* The requests the model sends.  Orders are created and patched by user 1  *)
(* (owner 1) and user 3 (owner 2), for clients of their own owner; package  *)
(* BR2 is held by owner 2 alone.  A PATCH names a client, a user, both or   *)
(* neither, and may carry a new servico when it names neither or names     *)
(* user 3 alone.  Any user may call registro-entrega.                       *)
Requesters == {1, 3}

CreateRequests(cu) ==
    {p \in OrderCreate :
        /\ ClienteOwner(p.cliente_id) = UserOwner(cu)
        /\ p.codigo_pacote = "BR2" => cu = 3}

UpdateRequests ==
    {p \in OrderUpdate :
        /\ (p.cliente_id # NULL /\ p.user_id # NULL) => p.user_id = 2
        /\ p.servico # NoServico => (p.cliente_id = NULL /\ p.user_id \in {NULL, 3})}

RegistroEntregaPayload ==
    [codigo_pacote : PackageCodes, cliente_id : {NULL},
     user_id : {NULL}, servico : {NoServico}]

(***************************************************************************)
(* The answer of a handler and its unit of work.  loaded and assigned map  *)
(* the order_id of every row the session holds to the row as it was read   *)
(* and as the handler left it; added is the new row of a creation (or      *)
(* <<>>), evs the events passed to db.add, ret the returned row, first the  *)
(* first row of the result of registro-entrega's select.  The              *)
(* events one commit inserts are kept as a set: their order among          *)
(* themselves is the order of the select's result, which the store does    *)
(* not define and no handler reads back.                                   *)
(***************************************************************************)
NoRows == [i \in {} |-> NULL]

Raise(code, detail) ==
    [code |-> code, detail |-> detail, loaded |-> NoRows, assigned |-> NoRows,
     added |-> <<>>, evs |-> {}, ret |-> NULL, first |-> NULL]

Done(code, loaded, assigned, added, evs, ret) ==
    [code |-> code, detail |-> "", loaded |-> loaded, assigned |-> assigned,
     added |-> added, evs |-> evs, ret |-> ret, first |-> NULL]

(* RaiseDirty whose session is committed when the request ends *)
RaiseDirty_Flushed(id, read, order, code, detail) ==
    [Done(code, id :> read, id :> order, <<>>, {}, NULL) EXCEPT !.detail = detail]

(* raise HTTPException while the session holds row id with assignments not *)
(* yet committed: get_db closes the session and the assignments are lost   *)
RaiseDirty(id, read, order, code, detail) == Raise(code, detail)

Failed(r) == r.code >= 400

(* select(...).scalars().all() in the order the store returns the rows *)
IsResultOrder(perm, ids) ==
    /\ Len(perm) = Cardinality(ids)
    /\ \A i \in ids : \E k \in 1..Len(perm) : perm[k] = i

ResultOrders(ids) ==
    {perm \in UNION {[1..n -> ids] : n \in {Cardinality(ids)}} : IsResultOrder(perm, ids)}

(***************************************************************************)
(* Queries.                                                                *)
(***************************************************************************)
(* select(Order).where(owner_id).where(cliente_id).where(codigo_pacote) *)
SelectOwnerClienteCodigo(ords, owner, cliente, codigo) ==
    {i \in DOMAIN ords : /\ ords[i].owner_id = owner
                         /\ ords[i].cliente_id = cliente
                         /\ ords[i].codigo_pacote = codigo}

(* SelectOwnerCodigo without the owner_id filter *)
SelectOwnerCodigo_AnyOwner(ords, owner, codigo) ==
    {i \in DOMAIN ords : ords[i].codigo_pacote = codigo}

(* select(Order).where(owner_id).where(codigo_pacote) *)
SelectOwnerCodigo(ords, owner, codigo) ==
    {i \in DOMAIN ords : /\ ords[i].owner_id = owner
                         /\ ords[i].codigo_pacote = codigo}

(* SelectCodigo of the rows in status 2 or 4 alone *)
SelectCodigo_OnlyAssigned(ords, codigo) ==
    {i \in DOMAIN ords : ords[i].codigo_pacote = codigo /\ ords[i].status \in {2, 4}}

(* select(Order).where(codigo_pacote), every owner *)
SelectCodigo(ords, codigo) ==
    {i \in DOMAIN ords : ords[i].codigo_pacote = codigo}

(* UserFound without the owner_id filter *)
UserFound_AnyOwner(uid, owner) == uid \in UserIds

(* select(User).where(user_id).where(owner_id).scalar_one_or_none() *)
UserFound(uid, owner) == uid \in UserIds /\ UserOwner(uid) = owner

(* ClienteFound without the owner_id filter *)
ClienteFound_AnyOwner(cid, owner) == cid \in ClienteIds

(* select(Cliente).where(id_cliente).where(owner_id).scalar_one_or_none() *)
ClienteFound(cid, owner) == cid \in ClienteIds /\ ClienteOwner(cid) = owner

(***************************************************************************)
(* POST /varredura-ml and POST /create-order up to the first db.add: the   *)
(* duplicate check and the new row (its order_id is given by the insert).  *)
(***************************************************************************)
criar_order_varredura_ml(ords, cu, p, agora) ==
    LET owner_id == UserOwner(cu)
        existing == SelectOwnerClienteCodigo(ords, owner_id, p.cliente_id, p.codigo_pacote)
    IN  IF Cardinality(existing) > 1
        THEN Raise(500, "MultipleResultsFound")
        ELSE IF existing # {}
        THEN Raise(400, "Ja existe um order com este cliente_id + codigo_pacote.")
        ELSE Done(201, NoRows, NoRows,
                  <<Order(NULL, owner_id, p.cliente_id, p.codigo_pacote, p.servico, 0, agora, NULL)>>,
                  {}, NULL)

criar_order(ords, cu, p, agora) ==
    LET owner_id == UserOwner(cu)
        existing == SelectOwnerClienteCodigo(ords, owner_id, p.cliente_id, p.codigo_pacote)
    IN  IF Cardinality(existing) > 1
        THEN Raise(500, "MultipleResultsFound")
        ELSE IF existing # {}
        THEN Raise(400, "Ja existe um order com este cliente_id + codigo_pacote.")
        ELSE Done(201, NoRows, NoRows,
                  <<Order(NULL, owner_id, p.cliente_id, p.codigo_pacote, p.servico, 3, agora, cu)>>,
                  {}, NULL)

(* primeiro_evento of each creation handler, built from the refreshed row *)
primeiro_evento_varredura(novo_order, cu, agora) ==
    OrderEvent(novo_order.order_id, novo_order.status, NULL, agora, UserOwner(cu))

primeiro_evento_criar(novo_order, cu, agora) ==
    OrderEvent(novo_order.order_id, 3, cu, agora, UserOwner(cu))

(***************************************************************************)
(* PATCH /update-order.                                                    *)
(***************************************************************************)
(* lines 302-319: status 0 -> 1 *)
Caso1(order, cu, agora) ==
    LET o2 == [order EXCEPT !.status = 1, !.atualizado_em = agora, !.user_id = cu]
    IN  <<o2, OrderEvent(order.order_id, o2.status, cu, agora, UserOwner(cu))>>

(* lines 347-359: status 1 -> 2, PRESTADOR client *)
Caso2A(order, cu, p, agora) ==
    LET o2 == [order EXCEPT !.cliente_id = p.cliente_id, !.status = 2,
                            !.atualizado_em = agora, !.user_id = cu]
    IN  <<o2, OrderEvent(order.order_id, o2.status, cu, agora, UserOwner(cu))>>

(* Caso2B that records the acting user as the handling user *)
Caso2B_UserIsActor(order, cu, p, agora) ==
    LET o2 == [order EXCEPT !.user_id = cu, !.status = 4, !.atualizado_em = agora]
    IN  <<o2, OrderEvent(order.order_id, o2.status, cu, agora, UserOwner(cu))>>

(* lines 386-397: status 1 -> 4, ENTREGADOR user *)
Caso2B(order, cu, p, agora) ==
    LET o2 == [order EXCEPT !.user_id = p.user_id, !.status = 4, !.atualizado_em = agora]
    IN  <<o2, OrderEvent(order.order_id, o2.status, cu, agora, UserOwner(cu))>>

(* Caso3Row that assigns the driver on the rows of every owner *)
Caso3Row_EveryOwner(o, cu, p, agora) ==
    [o EXCEPT !.status = 4, !.atualizado_em = agora, !.user_id = p.user_id]

(* lines 454-470: one turn of the status-3 loop on row o *)
Caso3Row(o, cu, p, agora) ==
    LET o1 == [o EXCEPT !.status = 4, !.atualizado_em = agora]
    IN  IF o.owner_id = UserOwner(cu) THEN [o1 EXCEPT !.user_id = p.user_id] ELSE o1

(* Caso3Event with the owner_id of the request *)
Caso3Event_ActorOwner(o, cu, agora) == OrderEvent(o.order_id, 4, cu, agora, UserOwner(cu))

(* Caso3Event with the tipo read from the row *)
Caso3Event_RowStatus(o, cu, agora) == OrderEvent(o.order_id, o.status, cu, agora, o.owner_id)

Caso3Event(o, cu, agora) == OrderEvent(o.order_id, 4, cu, agora, o.owner_id)

(* line 328 and line 367: which of the two status-1 branches a payload takes *)
Is2A(p) == p.cliente_id # NULL /\ p.user_id = NULL

Is2B(p) == p.cliente_id = NULL /\ p.user_id # NULL

atualizar_order(ords, cu, p, agora) ==
    LET owner_id == UserOwner(cu)
        found == SelectOwnerCodigo(ords, owner_id, p.codigo_pacote)
    IN  IF Cardinality(found) > 1 THEN Raise(500, "MultipleResultsFound")
        ELSE IF found = {}
        THEN Raise(404, "Encomenda nao foi encontrada para este owner + codigo_pacote.")
        ELSE
        LET id == CHOOSE i \in found : TRUE
            read == ords[id]
            order == IF p.servico # NoServico THEN [read EXCEPT !.servico = p.servico] ELSE read
        IN  IF order.status = 0
            THEN LET c == Caso1(order, cu, agora)
                 IN  Done(200, id :> read, id :> c[1], <<>>, {c[2]}, id)
            ELSE IF order.status = 1
            THEN IF Is2A(p)
                 THEN IF ~ClienteFound(p.cliente_id, owner_id)
                      THEN RaiseDirty(id, read, order, 404, "Cliente nao encontrado para este owner.")
                      ELSE IF ClienteTipo(p.cliente_id) # "PRESTADOR"
                      THEN RaiseDirty(id, read, order, 400, "Cliente informado nao e do tipo PRESTADOR.")
                      ELSE LET c == Caso2A(order, cu, p, agora)
                           IN  Done(200, id :> read, id :> c[1], <<>>, {c[2]}, id)
                 ELSE IF Is2B(p)
                 THEN IF ~UserFound(p.user_id, owner_id)
                      THEN RaiseDirty(id, read, order, 404, "Usuario (user_id) nao encontrado para este owner.")
                      ELSE IF UserTipo(p.user_id) # "ENTREGADOR"
                      THEN RaiseDirty(id, read, order, 400, "Usuario informado nao e do tipo ENTREGADOR.")
                      ELSE LET c == Caso2B(order, cu, p, agora)
                           IN  Done(200, id :> read, id :> c[1], <<>>, {c[2]}, id)
                 ELSE RaiseDirty(id, read, order, 400, "Para status 1, envie cliente_id OU user_id (mas nao ambos).")
            ELSE IF order.status = 3
            THEN IF p.user_id = NULL
                 THEN RaiseDirty(id, read, order, 400, "Para status 3, e obrigatorio informar user_id (entregador).")
                 ELSE IF ~UserFound(p.user_id, owner_id)
                 THEN RaiseDirty(id, read, order, 404, "Usuario (user_id) nao encontrado para este owner.")
                 ELSE IF UserTipo(p.user_id) # "ENTREGADOR"
                 THEN RaiseDirty(id, read, order, 400, "Usuario informado nao e do tipo ENTREGADOR.")
                 ELSE IF SelectCodigo(ords, p.codigo_pacote) = {}
                 THEN RaiseDirty(id, read, order, 404, "Nenhuma order encontrada com esse codigo_pacote.")
                 ELSE LET ids == SelectCodigo(ords, p.codigo_pacote)
                          held == [i \in ids |-> IF i = id THEN order ELSE ords[i]]
                      IN  Done(200,
                               [i \in ids |-> ords[i]],
                               [i \in ids |-> Caso3Row(held[i], cu, p, agora)],
                               <<>>,
                               {Caso3Event(ords[i], cu, agora) : i \in ids},
                               id)
            ELSE RaiseDirty(id, read, order, 400, "Status atual nao permite este PATCH.")

(***************************************************************************)
(* PATCH /registro-entrega.  perm is the result order of the select over   *)
(* the package code.                                                       *)
(***************************************************************************)
(* EntregaRow that records the driver and leaves the status *)
EntregaRow_StatusKept(o, cu, agora) ==
    [o EXCEPT !.atualizado_em = agora, !.user_id = cu]

(* EntregaRow that takes each row to the status after its own *)
EntregaRow_NextStatus(o, cu, agora) ==
    [o EXCEPT !.status = o.status + 1, !.atualizado_em = agora, !.user_id = cu]

(* EntregaRow that delivers only the rows the existence check looked for *)
EntregaRow_OnlyEligible(o, cu, agora) ==
    IF o.status \in {2, 4}
    THEN [o EXCEPT !.status = 5, !.atualizado_em = agora, !.user_id = cu]
    ELSE o

(* lines 544-555: one turn of the loop on row o *)
EntregaRow(o, cu, agora) ==
    [o EXCEPT !.status = 5, !.atualizado_em = agora, !.user_id = cu]

EntregaEvent(o, cu, agora) == OrderEvent(o.order_id, 5, cu, agora, o.owner_id)

(* order_principal that takes the first row whatever its owner *)
order_principal_First(ords, perm, owner_id) == perm[1]

(* lines 537-540: the current owner's row if there is one, else the first *)
order_principal(ords, perm, owner_id) ==
    LET mine == {k \in 1..Len(perm) : ords[perm[k]].owner_id = owner_id}
    IN  IF mine # {} THEN perm[CHOOSE k \in mine : \A j \in mine : k <= j] ELSE perm[1]

(* registro_entrega without the role test of lines 510-514 *)
registro_entrega_AnyRole(ords, cu, p, agora, perm) ==
    LET owner_id == UserOwner(cu)
        ids == {perm[k] : k \in 1..Len(perm)}
    IN  IF Len(perm) = 0
        THEN Raise(404, "Nenhuma order encontrada com esse codigo_pacote.")
        ELSE IF ~\E i \in ids : ords[i].status \in {2, 4}
        THEN Raise(400, "Entrega so pode ser registrada se alguma linha estiver em status 2 ou 4.")
        ELSE [Done(200,
                   [i \in ids |-> ords[i]],
                   [i \in ids |-> EntregaRow(ords[i], cu, agora)],
                   <<>>,
                   {EntregaEvent(ords[i], cu, agora) : i \in ids},
                   order_principal(ords, perm, owner_id))
              EXCEPT !.first = perm[1]]

(* registro_entrega whose test of line 530 also takes status 3 *)
registro_entrega_Status3Eligible(ords, cu, p, agora, perm) ==
    LET owner_id == UserOwner(cu)
        ids == {perm[k] : k \in 1..Len(perm)}
    IN  IF UserTipo(cu) # "ENTREGADOR"
        THEN Raise(403, "Apenas usuarios ENTREGADOR podem registrar entrega.")
        ELSE IF Len(perm) = 0
        THEN Raise(404, "Nenhuma order encontrada com esse codigo_pacote.")
        ELSE IF ~\E i \in ids : ords[i].status \in {2, 3, 4}
        THEN Raise(400, "Entrega so pode ser registrada se alguma linha estiver em status 2 ou 4.")
        ELSE [Done(200,
                   [i \in ids |-> ords[i]],
                   [i \in ids |-> EntregaRow(ords[i], cu, agora)],
                   <<>>,
                   {EntregaEvent(ords[i], cu, agora) : i \in ids},
                   order_principal(ords, perm, owner_id))
              EXCEPT !.first = perm[1]]

registro_entrega(ords, cu, p, agora, perm) ==
    LET owner_id == UserOwner(cu)
        ids == {perm[k] : k \in 1..Len(perm)}
    IN  IF UserTipo(cu) # "ENTREGADOR"
        THEN Raise(403, "Apenas usuarios ENTREGADOR podem registrar entrega.")
        ELSE IF Len(perm) = 0
        THEN Raise(404, "Nenhuma order encontrada com esse codigo_pacote.")
        ELSE IF ~\E i \in ids : ords[i].status \in {2, 4}
        THEN Raise(400, "Entrega so pode ser registrada se alguma linha estiver em status 2 ou 4.")
        ELSE [Done(200,
                   [i \in ids |-> ords[i]],
                   [i \in ids |-> EntregaRow(ords[i], cu, agora)],
                   <<>>,
                   {EntregaEvent(ords[i], cu, agora) : i \in ids},
                   order_principal(ords, perm, owner_id))
              EXCEPT !.first = perm[1]]

(***************************************************************************)
(* GET / and GET /{order_id}.                                              *)
(***************************************************************************)
(* select(Order).where(owner_id).scalars().all(): the rows returned *)
listar_orders(ords, cu) ==
    {ords[i] : i \in {j \in DOMAIN ords : ords[j].owner_id = UserOwner(cu)}}

(* obter_order without the owner_id filter *)
obter_order_AnyOwner(ords, cu, order_id) ==
    LET found == {i \in DOMAIN ords : ords[i].order_id = order_id}
    IN  IF found = {}
        THEN Raise(404, "Order nao encontrado.")
        ELSE Done(200, NoRows, NoRows, <<>>, {}, CHOOSE i \in found : TRUE)

(* order_id is the primary key: the select returns one row or none *)
obter_order(ords, cu, order_id) ==
    LET found == {i \in DOMAIN ords : /\ ords[i].owner_id = UserOwner(cu)
                                      /\ ords[i].order_id = order_id}
    IN  IF found = {}
        THEN Raise(404, "Order nao encontrado.")
        ELSE Done(200, NoRows, NoRows, <<>>, {}, CHOOSE i \in found : TRUE)

(***************************************************************************)
(* aplicar_transicao_status, the slug-keyed flow engine (no route calls    *)
(* it).  A text is a sequence of characters; None is the null of the       *)
(* nullable column owner.slug.                                             *)
(***************************************************************************)
None == <<"None">>

fluxo_1 == (0 :> 1) @@ (1 :> 2) @@ (2 :> 3) @@ (3 :> 4) @@ (4 :> 5)

fluxo_2 == (0 :> 1) @@ (2 :> 5)

fluxo_3 == (1 :> 1) @@ (4 :> 5)

fluxo_4 == (4 :> 5)

(* str.strip() *)
RECURSIVE lstrip(_)
lstrip(s) == IF s # <<>> /\ Head(s) = " " THEN lstrip(Tail(s)) ELSE s

RECURSIVE rstrip(_)
rstrip(s) == IF s # <<>> /\ s[Len(s)] = " " THEN rstrip(SubSeq(s, 1, Len(s) - 1)) ELSE s

strip(s) == rstrip(lstrip(s))

(* line 86: slug = (owner.slug or "1").strip() *)
slug_of(owner) == strip(IF owner.slug = None \/ owner.slug = <<>> THEN <<"1">> ELSE owner.slug)

(* TransicaoRow that leaves the handling user as it was *)
TransicaoRow_KeepsUser(order, novo_status, cu, agora) ==
    [order EXCEPT !.status = novo_status, !.atualizado_em = agora]

(* lines 113-115 *)
TransicaoRow(order, novo_status, cu, agora) ==
    [order EXCEPT !.status = novo_status, !.atualizado_em = agora, !.user_id = cu]

aplicar_transicao_status(order, owner, cu, agora) ==
    LET slug == slug_of(owner)
        mapa == IF slug = <<"1">> THEN fluxo_1
                ELSE IF slug = <<"2">> THEN fluxo_2
                ELSE IF slug = <<"3">> THEN fluxo_3
                ELSE fluxo_4
        id == order.order_id
    IN  IF slug \notin {<<"1">>, <<"2">>, <<"3">>, <<"4">>}
        THEN Raise(400, "Fluxo de status nao configurado para o slug.")
        ELSE IF order.status \notin DOMAIN mapa
        THEN Raise(400, "Status atual nao tem transicao definida para o fluxo.")
        ELSE LET o2 == TransicaoRow(order, mapa[order.status], cu, agora)
             IN  Done(200, id :> order, id :> o2, <<>>,
                      {OrderEvent(id, o2.status, cu, agora, owner.id_owner)}, id)

(***************************************************************************)
(* db.commit(): the session writes, for every row it holds, the columns    *)
(* whose assigned value differs from the value it loaded, then inserts     *)
(* the added events.                                                       *)
(***************************************************************************)
FlushRow(cur, loaded, assigned) ==
    [cur EXCEPT
       !.cliente_id = IF assigned.cliente_id # loaded.cliente_id THEN assigned.cliente_id ELSE @,
       !.servico = IF assigned.servico # loaded.servico THEN assigned.servico ELSE @,
       !.status = IF assigned.status # loaded.status THEN assigned.status ELSE @,
       !.atualizado_em = IF assigned.atualizado_em # loaded.atualizado_em
                         THEN assigned.atualizado_em ELSE @,
       !.user_id = IF assigned.user_id # loaded.user_id THEN assigned.user_id ELSE @]

(* CommitOrders that commits after the first row of the loop *)
CommitOrders_FirstRowOnly(ords, r) ==
    [i \in DOMAIN ords |->
        IF i \in DOMAIN r.assigned /\ \A j \in DOMAIN r.assigned : i <= j
        THEN r.assigned[i]
        ELSE ords[i]]

CommitOrders(ords, r) ==
    [i \in DOMAIN ords |->
        IF i \in DOMAIN r.assigned THEN FlushRow(ords[i], r.loaded[i], r.assigned[i])
        ELSE ords[i]]

(* CommitEvents that keeps one event per order, replacing the older ones *)
CommitEvents_OnePerOrder(evs, r) ==
    IF r.evs = {} THEN evs
    ELSE Append([k \in DOMAIN evs |->
                    {e \in evs[k] : \A f \in r.evs : f.order_id # e.order_id}],
                r.evs)

CommitEvents(evs, r) == IF r.evs = {} THEN evs ELSE Append(evs, r.evs)

(* db.add(novo_order); db.commit(): the insert gives the next order_id *)
InsertOrder(ords, novo_order) ==
    Append(ords, [novo_order EXCEPT !.order_id = Len(ords) + 1])

(* The request last answered: the handler, the actor, the payload, the HTTP *)
(* status and, on success, the returned row as it is after the commit (and  *)
(* for registro-entrega the row its select returned first).  arg is the     *)
(* order_id a call was given outside a payload, slug the owner.slug the     *)
(* flow engine was given, rows the rows a listing returned, detail the      *)
(* detail of the HTTPException raised.                                      *)
Answer(op, cu, p, r, ords, ret) ==
    [op |-> op, cu |-> cu, p |-> p, code |-> r.code,
     order_id |-> IF Failed(r) THEN NULL ELSE ret,
     status |-> IF Failed(r) THEN NULL ELSE ords[ret].status,
     first |-> r.first, arg |-> NULL, slug |-> <<>>, rows |-> {},
     detail |-> r.detail]

NoRequest ==
    [op |-> "none", cu |-> NULL,
     p |-> [codigo_pacote |-> "", cliente_id |-> NULL, user_id |-> NULL, servico |-> NoServico],
     code |-> 0, order_id |-> NULL, status |-> NULL, first |-> NULL,
     arg |-> NULL, slug |-> <<>>, rows |-> {}, detail |-> ""]

(* A failed request changes nothing but its answer (ErrorsChangeNothing    *)
(* checks it), so what follows it is what follows the state before it: a   *)
(* run of the model is a run of successful requests, ended by at most one  *)
(* failed request.  A GET changes nothing either and ends the run as well. *)
Serving == last.code < 400 /\ last.op \notin {"listar_orders", "obter_order"}

(***************************************************************************)
(* Spec: every request runs from its first query to its answer in one     *)
(* step.                                                                   *)
(***************************************************************************)
Init ==
    /\ orders = <<>>
    /\ events = <<>>
    /\ clock = 0
    /\ last = NoRequest
    /\ inflight = {}

CriarOrderVarreduraMl ==
    \E cu \in Requesters : \E p \in CreateRequests(cu) :
        LET agora == clock + 1
            r == criar_order_varredura_ml(orders, cu, p, agora)
        IN  /\ Serving /\ clock < MaxClock
            /\ IF Failed(r)
               THEN /\ last' = Answer("criar_order_varredura_ml", cu, p, r, orders, NULL)
                    /\ UNCHANGED <<orders, events, clock>>
               ELSE LET ords1 == InsertOrder(orders, r.added[1])
                        novo_order == ords1[Len(ords1)]
                    IN  /\ Len(orders) < MaxOrders
                        /\ orders' = ords1
                        /\ events' = Append(events, {primeiro_evento_varredura(novo_order, cu, agora)})
                        /\ clock' = agora
                        /\ last' = Answer("criar_order_varredura_ml", cu, p, r, ords1,
                                          novo_order.order_id)
            /\ UNCHANGED inflight

CriarOrder ==
    \E cu \in Requesters : \E p \in CreateRequests(cu) :
        LET agora == clock + 1
            r == criar_order(orders, cu, p, agora)
        IN  /\ Serving /\ clock < MaxClock
            /\ IF Failed(r)
               THEN /\ last' = Answer("criar_order", cu, p, r, orders, NULL)
                    /\ UNCHANGED <<orders, events, clock>>
               ELSE LET ords1 == InsertOrder(orders, r.added[1])
                        novo_order == ords1[Len(ords1)]
                    IN  /\ Len(orders) < MaxOrders
                        /\ orders' = ords1
                        /\ events' = Append(events, {primeiro_evento_criar(novo_order, cu, agora)})
                        /\ clock' = agora
                        /\ last' = Answer("criar_order", cu, p, r, ords1, novo_order.order_id)
            /\ UNCHANGED inflight

AtualizarOrder ==
    \E cu \in Requesters, p \in UpdateRequests :
        LET agora == clock + 1
            r == atualizar_order(orders, cu, p, agora)
            ords1 == CommitOrders(orders, r)
        IN  /\ Serving /\ clock < MaxClock
            /\ orders' = ords1
            /\ events' = CommitEvents(events, r)
            /\ clock' = IF Failed(r) THEN clock ELSE agora
            /\ last' = Answer("atualizar_order", cu, p, r, ords1, r.ret)
            /\ UNCHANGED inflight

RegistroEntrega ==
    \E cu \in UserIds, p \in RegistroEntregaPayload :
        \E perm \in ResultOrders(SelectCodigo(orders, p.codigo_pacote)) :
            LET agora == clock + 1
                r == registro_entrega(orders, cu, p, agora, perm)
                ords1 == CommitOrders(orders, r)
            IN  /\ Serving /\ clock < MaxClock
                /\ orders' = ords1
                /\ events' = CommitEvents(events, r)
                /\ clock' = IF Failed(r) THEN clock ELSE agora
                /\ last' = Answer("registro_entrega", cu, p, r, ords1, r.ret)
                /\ UNCHANGED inflight

Next == CriarOrderVarreduraMl \/ CriarOrder \/ AtualizarOrder \/ RegistroEntrega

Spec == Init /\ [][Next]_vars

(***************************************************************************)
(* SpecRead: the requests of Spec, and the two GET handlers, called by a   *)
(* user of either owner, GET /{order_id} with the order_id of any row or   *)
(* the next one.                                                           *)
(***************************************************************************)
ListarOrders ==
    \E cu \in Requesters :
        /\ Serving
        /\ last' = [NoRequest EXCEPT !.op = "listar_orders", !.cu = cu, !.code = 200,
                                     !.rows = listar_orders(orders, cu)]
        /\ UNCHANGED <<orders, events, clock, inflight>>

ObterOrder ==
    \E cu \in Requesters : \E order_id \in 1..(Len(orders) + 1) :
        LET r == obter_order(orders, cu, order_id)
        IN  /\ Serving
            /\ last' = [Answer("obter_order", cu, NoRequest.p, r, orders, r.ret)
                           EXCEPT !.arg = order_id]
            /\ UNCHANGED <<orders, events, clock, inflight>>

NextRead == Next \/ ListarOrders \/ ObterOrder

SpecRead == Init /\ [][NextRead]_vars

(***************************************************************************)
(* SpecFluxo: orders are created by the two creation handlers and advanced *)
(* by the flow engine alone, called for any order with the acting user's   *)
(* owner, whose slug is any of OwnerSlugs, by a caller that commits what   *)
(* the engine assigned and added.                                          *)
(***************************************************************************)
OwnerSlugs ==
    {None, <<>>, <<" ">>, <<"1">>, <<" ", "2">>, <<"3">>, <<"4", " ">>, <<"5">>}

AplicarTransicaoStatus ==
    \E cu \in Requesters, s \in OwnerSlugs : \E i \in DOMAIN orders :
        LET agora == clock + 1
            owner == [id_owner |-> UserOwner(cu), slug |-> s]
            r == aplicar_transicao_status(orders[i], owner, cu, agora)
            ords1 == CommitOrders(orders, r)
        IN  /\ Serving /\ clock < MaxClock
            /\ orders' = ords1
            /\ events' = CommitEvents(events, r)
            /\ clock' = IF Failed(r) THEN clock ELSE agora
            /\ last' = [Answer("aplicar_transicao_status", cu, NoRequest.p, r, ords1, r.ret)
                           EXCEPT !.arg = i, !.slug = s]
            /\ UNCHANGED inflight

NextFluxo == CriarOrderVarreduraMl \/ CriarOrder \/ AplicarTransicaoStatus

SpecFluxo == Init /\ [][NextFluxo]_vars

(***************************************************************************)
(* SpecConc: requests overlap.  Each request has its own session          *)
(* (src/db.py, get_db): its queries read the committed tables when it      *)
(* starts, and each db.commit() is one step that flushes its writes over   *)
(* whatever is committed by then.  No handler locks a row or sets an       *)
(* isolation level.  A creation commits twice, and the varredura handler   *)
(* builds its event from the row as db.refresh read it in between.         *)
(***************************************************************************)
Session(op, cu, p, agora, r, pc) ==
    [op |-> op, cu |-> cu, p |-> p, agora |-> agora, r |-> r, pc |-> pc, novo |-> NULL]

(* A request whose handler raises writes nothing and holds no session: it  *)
(* is a step of Spec, and of those only the refused creations are steps    *)
(* here; as in Spec a refused request ends the run.  The overlapping       *)
(* requests are those on package BR1 that carry no servico and name rows   *)
(* that exist.                                                             *)
ConcRequest(p) ==
    /\ p.codigo_pacote = "BR1"
    /\ p.servico \in {NoServico, "s1"}
    /\ p.cliente_id \in {NULL} \cup ClienteIds
    /\ p.user_id \in {NULL} \cup UserIds

Begin(op, cu, p, r, pc) ==
    /\ Serving
    /\ ~Failed(r)
    /\ clock < MaxConcClock
    /\ Cardinality(inflight) < MaxInflight
    /\ inflight' = inflight \cup {Session(op, cu, p, clock + 1, r, pc)}
    /\ clock' = clock + 1
    /\ UNCHANGED <<orders, events, last>>

BeginCriarOrderVarreduraMl ==
    \E cu \in Requesters : \E p \in {q \in CreateRequests(cu) : ConcRequest(q)} :
        Begin("criar_order_varredura_ml", cu, p,
              criar_order_varredura_ml(orders, cu, p, clock + 1), "insert")

BeginCriarOrder ==
    \E cu \in Requesters : \E p \in {q \in CreateRequests(cu) : ConcRequest(q)} :
        Begin("criar_order", cu, p, criar_order(orders, cu, p, clock + 1), "insert")

BeginAtualizarOrder ==
    \E cu \in Requesters, p \in {q \in UpdateRequests : ConcRequest(q)} :
        Begin("atualizar_order", cu, p, atualizar_order(orders, cu, p, clock + 1), "commit")

BeginRegistroEntrega ==
    \E cu \in UserIds, p \in {q \in RegistroEntregaPayload : ConcRequest(q)} :
        \E perm \in ResultOrders(SelectCodigo(orders, p.codigo_pacote)) :
            Begin("registro_entrega", cu, p,
                  registro_entrega(orders, cu, p, clock + 1, perm), "commit")

(* db.add(novo_order); db.commit() *)
CommitInsert ==
    \E s \in inflight :
        /\ Serving
        /\ s.pc = "insert"
        /\ Len(orders) < MaxOrders
        /\ orders' = InsertOrder(orders, s.r.added[1])
        /\ inflight' = (inflight \ {s}) \cup
               {[s EXCEPT !.novo = Len(orders) + 1,
                          !.pc = IF s.op = "criar_order" THEN "event" ELSE "refresh"]}
        /\ UNCHANGED <<events, clock, last>>

(* db.refresh(novo_order) of the varredura handler, then primeiro_evento *)
Refresh ==
    \E s \in inflight :
        /\ Serving
        /\ s.pc = "refresh"
        /\ inflight' = (inflight \ {s}) \cup
               {[s EXCEPT !.pc = "event",
                          !.r.evs = {primeiro_evento_varredura(orders[s.novo], s.cu, s.agora)}]}
        /\ UNCHANGED <<orders, events, clock, last>>

(* db.add(primeiro_evento); db.commit(); return novo_order *)
CommitEvent ==
    \E s \in inflight :
        /\ Serving
        /\ s.pc = "event"
        /\ events' = Append(events,
               IF s.op = "criar_order"
               THEN {primeiro_evento_criar(orders[s.novo], s.cu, s.agora)}
               ELSE s.r.evs)
        /\ inflight' = inflight \ {s}
        /\ last' = Answer(s.op, s.cu, s.p, s.r, orders, s.novo)
        /\ UNCHANGED <<orders, clock>>

(* db.commit(); db.refresh(order); return order *)
Commit ==
    \E s \in inflight :
        /\ Serving
        /\ s.pc = "commit"
        /\ orders' = CommitOrders(orders, s.r)
        /\ events' = CommitEvents(events, s.r)
        /\ inflight' = inflight \ {s}
        /\ last' = Answer(s.op, s.cu, s.p, s.r, orders', s.r.ret)
        /\ UNCHANGED clock

(* a creation whose duplicate check raises: it reads the committed rows    *)
(* and answers, holding nothing.  What it answers does not depend on the   *)
(* requests in flight, and the model sends it when none is.                *)
RefuseCriarOrder ==
    \E cu \in Requesters : \E p \in {q \in CreateRequests(cu) : ConcRequest(q)} :
        \E op \in {"criar_order_varredura_ml", "criar_order"} :
            LET r == IF op = "criar_order"
                     THEN criar_order(orders, cu, p, clock + 1)
                     ELSE criar_order_varredura_ml(orders, cu, p, clock + 1)
            IN  /\ Serving
                /\ inflight = {}
                /\ Failed(r)
                /\ last' = Answer(op, cu, p, r, orders, NULL)
                /\ UNCHANGED <<orders, events, clock, inflight>>

NextConc ==
    \/ RefuseCriarOrder
    \/ BeginCriarOrderVarreduraMl
    \/ BeginCriarOrder
    \/ BeginAtualizarOrder
    \/ BeginRegistroEntrega
    \/ CommitInsert
    \/ Refresh
    \/ CommitEvent
    \/ Commit

SpecConc == Init /\ [][NextConc]_vars

(***************************************************************************)
(* Vocabulary of the properties.  Every step of Spec is the request        *)
(* recorded in last'; a step of SpecConc that answers is the request       *)
(* recorded in last'.                                                      *)
(***************************************************************************)
(* the events the step appended *)
NewEvents == IF Len(events') > Len(events) THEN events'[Len(events')] ELSE {}

(* the events of the last commit that wrote any *)
LastEvents == IF Len(events) > 0 THEN events[Len(events)] ELSE {}

AllEvents(evs) == UNION {evs[k] : k \in 1..Len(evs)}

(* PATCH /update-order names its order by (owner_id, codigo_pacote): the  *)
(* rows of the actor's owner with the payload's code.                      *)
OwnRows(ords, cu, p) == SelectOwnerCodigo(ords, UserOwner(cu), p.codigo_pacote)

(* the lookup of lines 281-285 returns one row *)
Identified(ords, cu, p) == Cardinality(OwnRows(ords, cu, p)) = 1

TheOrder(ords, cu, p) == CHOOSE i \in OwnRows(ords, cu, p) : TRUE

(* the step is a PATCH whose lookup returns one row, and it is in status st *)
Patched(st) ==
    /\ last'.op = "atualizar_order"
    /\ Identified(orders, last'.cu, last'.p)
    /\ orders[TheOrder(orders, last'.cu, last'.p)].status = st

ValidDriver(cu, uid) == UserFound(uid, UserOwner(cu)) /\ UserTipo(uid) = "ENTREGADOR"

ValidProvider(cu, cid) == ClienteFound(cid, UserOwner(cu)) /\ ClienteTipo(cid) = "PRESTADOR"

BothOrNeither(p) == (p.cliente_id # NULL) <=> (p.user_id # NULL)

(* the step appended one event, for row i, with this tipo and the actor *)
OneEvent(i, tipo) ==
    /\ Len(events') = Len(events) + 1
    /\ \E e \in NewEvents :
          /\ NewEvents = {e}
          /\ e.order_id = i
          /\ e.tipo = tipo
          /\ e.actor_user_id = last'.cu

(* what the step has done when it is the fan-out of the request's code *)
FanOutDone ==
    LET ids == SelectCodigo(orders, last'.p.codigo_pacote)
    IN  /\ last'.code = 200
        /\ DOMAIN orders' = DOMAIN orders
        /\ \A i \in ids :
              /\ orders'[i].status = 4
              /\ orders'[i].user_id =
                    IF orders[i].owner_id = UserOwner(last'.cu)
                    THEN last'.p.user_id ELSE orders[i].user_id
              /\ Cardinality({e \in NewEvents : e.order_id = i}) = 1
        /\ Cardinality(NewEvents) = Cardinality(ids)
        /\ \A e \in NewEvents :
              /\ e.order_id \in ids
              /\ e.tipo = 4
              /\ e.actor_user_id = last'.cu
              /\ e.owner_id = orders[e.order_id].owner_id

(* what the step has done when it took row i from status 0 to 1 *)
Status0Done(i) ==
    /\ last'.code = 200
    /\ orders'[i].status = 1
    /\ orders'[i].user_id = last'.cu
    /\ OneEvent(i, 1)

(* the step answered a validation error and wrote nothing *)
Refused ==
    /\ last'.code = 400
    /\ orders' = orders
    /\ events' = events

(* what the step has done when it took row i from status 1 to 2 or to 4 *)
Status1Done(i) ==
    LET p == last'.p
    IN  /\ (p.cliente_id # NULL /\ p.user_id = NULL /\ ValidProvider(last'.cu, p.cliente_id)) =>
              /\ last'.code = 200
              /\ orders'[i].status = 2
              /\ orders'[i].cliente_id = p.cliente_id
              /\ orders'[i].user_id = last'.cu
              /\ OneEvent(i, 2)
        /\ (p.cliente_id = NULL /\ p.user_id # NULL /\ ValidDriver(last'.cu, p.user_id)) =>
              /\ last'.code = 200
              /\ orders'[i].status = 4
              /\ orders'[i].user_id = p.user_id
              /\ OneEvent(i, 4)

(* A failed request changes no table and reads no clock value that is kept. *)
ErrorsChangeNothing == [][last'.code >= 400 => UNCHANGED <<orders, events, clock>>]_vars

(***************************************************************************)
(* C1.  Status 5 is terminal: no step takes a row that has status 5 to     *)
(* another status.  Refuted under Spec: the status-3 branch of             *)
(* atualizar_order writes status 4 to every row of the package code,       *)
(* delivered rows included.                                                *)
(***************************************************************************)
C1_DeliveredIsTerminal ==
    [][\A i \in DOMAIN orders : orders[i].status = 5 => orders'[i].status = 5]_vars

(***************************************************************************)
(* C2.  Cross-owner fan-out: when an actor sends a PATCH naming an         *)
(* ENTREGADOR of the actor's owner for a package code of which the actor's *)
(* owner has a row in status 3, the request succeeds; every row of the     *)
(* package code, whatever its owner and status, ends in status 4; the step *)
(* appends exactly one event per such row, each with tipo 4, the actor,    *)
(* and the row's own owner_id; and user_id becomes the named driver on the *)
(* rows of the acting owner and stays as it was on the others.  Refuted    *)
(* under Spec where the owner has two rows of the code (see C6): the       *)
(* lookup raises and nothing is written.                                   *)
(***************************************************************************)
C2_FanOut ==
    [][(/\ last'.op = "atualizar_order"
        /\ ValidDriver(last'.cu, last'.p.user_id)
        /\ \E i \in OwnRows(orders, last'.cu, last'.p) : orders[i].status = 3) =>
         FanOutDone]_vars

(* The fan-out is as C2 says wherever the lookup returns one row. *)
FanOut_WhenIdentified ==
    [][(Patched(3) /\ ValidDriver(last'.cu, last'.p.user_id)) => FanOutDone]_vars

(* a fan-out has just written the rows of two owners, one of them not assigned *)
FanOut_Reached ==
    /\ last.op = "atualizar_order" /\ last.code = 200 /\ last.p.user_id # NULL
    /\ \E i, j \in DOMAIN orders :
          /\ orders[i].owner_id = UserOwner(last.cu)
          /\ orders[j].owner_id # UserOwner(last.cu)
          /\ orders[i].codigo_pacote = last.p.codigo_pacote
          /\ orders[j].codigo_pacote = last.p.codigo_pacote
          /\ orders[i].status = 4 /\ orders[j].status = 4
          /\ orders[i].user_id = last.p.user_id
          /\ orders[j].user_id # last.p.user_id
          /\ \E e, f \in LastEvents :
                e.order_id = i /\ f.order_id = j /\ e.tipo = 4 /\ f.tipo = 4

(***************************************************************************)
(* C3.  Each transition is one transaction.  In every step of SpecConc: a  *)
(* row's status changes only together with an appended event for that row  *)
(* carrying the new status; when a status-3 fan-out or a registro-entrega  *)
(* commits, every row it holds is written and exactly one event per held   *)
(* row is appended, in that one step; and while such a request is still in *)
(* flight no row and no event carries anything of it.                      *)
(***************************************************************************)
FanOutOrEntrega(s) ==
    /\ s.pc = "commit"
    /\ \/ s.op = "registro_entrega"
       \/ s.op = "atualizar_order" /\ s.r.loaded[s.r.ret].status = 3

C3_OneTransaction ==
    [][/\ \A i \in DOMAIN orders :
             orders'[i].status # orders[i].status =>
                \E e \in NewEvents : e.order_id = i /\ e.tipo = orders'[i].status
       /\ \A s \in inflight \ inflight' :
             FanOutOrEntrega(s) =>
                /\ \A i \in DOMAIN s.r.assigned :
                      /\ orders'[i].atualizado_em = s.agora
                      /\ \E e \in NewEvents : e.order_id = i /\ e.data_hora = s.agora
                /\ Cardinality(NewEvents) = Cardinality(DOMAIN s.r.assigned)
       /\ \A s \in inflight' :
             FanOutOrEntrega(s) =>
                /\ \A i \in DOMAIN orders' : orders'[i].atualizado_em # s.agora
                /\ \A e \in AllEvents(events') : e.data_hora # s.agora]_vars

(* a registro-entrega has just committed the rows of two owners at once *)
C3_Witness ==
    /\ last.op = "registro_entrega" /\ last.code = 200
    /\ \E i, j \in DOMAIN orders :
          /\ orders[i].owner_id # orders[j].owner_id
          /\ orders[i].status = 5 /\ orders[j].status = 5
          /\ orders[i].atualizado_em = orders[j].atualizado_em
          /\ \E e, f \in LastEvents :
                e.order_id = i /\ f.order_id = j /\ e.tipo = 5 /\ f.tipo = 5

(***************************************************************************)
(* C4.  registro-entrega is row-count consistent: when an ENTREGADOR       *)
(* calls it for a package code of which at least one row, of any owner, is *)
(* in status 2 or 4, it succeeds; every row of the code, also those not in *)
(* status 2 or 4, ends in status 5 with user_id the acting driver; and the *)
(* step appends exactly one event per row, with tipo 5 and the driver as   *)
(* actor.                                                                  *)
(***************************************************************************)
C4_EntregaAllRows ==
    [][(/\ last'.op = "registro_entrega"
        /\ UserTipo(last'.cu) = "ENTREGADOR"
        /\ \E i \in SelectCodigo(orders, last'.p.codigo_pacote) : orders[i].status \in {2, 4}) =>
         LET ids == SelectCodigo(orders, last'.p.codigo_pacote)
         IN  /\ last'.code = 200
             /\ DOMAIN orders' = DOMAIN orders
             /\ \A i \in ids :
                   /\ orders'[i].status = 5
                   /\ orders'[i].user_id = last'.cu
                   /\ Cardinality({e \in NewEvents : e.order_id = i}) = 1
             /\ Cardinality(NewEvents) = Cardinality(ids)
             /\ \A e \in NewEvents :
                   /\ e.order_id \in ids
                   /\ e.tipo = 5
                   /\ e.actor_user_id = last'.cu
                   /\ e.owner_id = orders[e.order_id].owner_id]_vars

(* a delivery has just been registered on two rows, one of which was only  *)
(* created (status 0 or 3) by the commit before it                         *)
C4_Witness ==
    /\ last.op = "registro_entrega" /\ last.code = 200
    /\ Len(events) >= 2
    /\ \E i, j \in DOMAIN orders :
          /\ i # j
          /\ orders[i].status = 5 /\ orders[j].status = 5
          /\ orders[i].user_id = last.cu /\ orders[j].user_id = last.cu
          /\ \E e, f \in LastEvents : e.order_id = i /\ f.order_id = j
          /\ \E g \in events[Len(events) - 1] : g.order_id = j /\ g.tipo \in {0, 3}

(***************************************************************************)
(* C5.  Overlapping requests leave what some serial order of them leaves.  *)
(* In a serial run a row leaves status 0 once, so it gets at most one      *)
(* tipo-1 event written by an actor (it holds under Spec); the claim's own *)
(* example, stated here, is refuted under SpecConc: two PATCH requests     *)
(* that both read the row in status 0 both commit a tipo-1 event.          *)
(***************************************************************************)
C5_OneTriageEventPerRow ==
    \A i \in DOMAIN orders :
        Cardinality({k \in 1..Len(events) :
                        \E e \in events[k] :
                            e.order_id = i /\ e.tipo = 1 /\ e.actor_user_id # NULL}) <= 1

(***************************************************************************)
(* C6.  There is at most one order row per (owner_id, codigo_pacote).      *)
(* Refuted under Spec: the creation handlers reject only a repeated        *)
(* (owner_id, cliente_id, codigo_pacote).                                  *)
(***************************************************************************)
C6_OneRowPerOwnerCodigo ==
    \A i, j \in DOMAIN orders :
        (orders[i].owner_id = orders[j].owner_id
         /\ orders[i].codigo_pacote = orders[j].codigo_pacote) => i = j

(***************************************************************************)
(* C7.  No two order rows share (owner_id, cliente_id, codigo_pacote),     *)
(* also when creations overlap.  It holds under Spec and is refuted under  *)
(* SpecConc: two creations that both ran the duplicate check before either *)
(* committed both insert.                                                  *)
(***************************************************************************)
C7_UniqueOwnerClienteCodigo ==
    \A i, j \in DOMAIN orders :
        (/\ orders[i].owner_id = orders[j].owner_id
         /\ orders[i].cliente_id = orders[j].cliente_id
         /\ orders[i].codigo_pacote = orders[j].codigo_pacote) => i = j

(***************************************************************************)
(* C8.  A PATCH for a package code of which the actor's owner has a row   *)
(* in status 0 succeeds whatever cliente_id and user_id it carries, sets   *)
(* that row's status to 1 and its handling user to the actor, and appends  *)
(* exactly one event, with tipo 1 and the actor.  Refuted under Spec where *)
(* the owner has two rows of the code (see C6): the lookup raises.         *)
(***************************************************************************)
C8_Status0 ==
    [][last'.op = "atualizar_order" =>
         \A i \in OwnRows(orders, last'.cu, last'.p) :
             orders[i].status = 0 => Status0Done(i)]_vars

(* The step out of status 0 is as C8 says wherever the lookup returns one row. *)
Status0_WhenIdentified ==
    [][Patched(0) => Status0Done(TheOrder(orders, last'.cu, last'.p))]_vars

(* an order has just gone from 0 to 1 on a payload naming a client and a user *)
Status0_Reached ==
    /\ last.op = "atualizar_order" /\ last.code = 200 /\ last.status = 1
    /\ last.p.cliente_id # NULL /\ last.p.user_id # NULL
    /\ orders[last.order_id].user_id = last.cu
    /\ \E e \in LastEvents : e.order_id = last.order_id /\ e.tipo = 1

(***************************************************************************)
(* C9.  A PATCH for a package code of which the actor's owner has a row   *)
(* in status 1, naming both a client and a user, or neither, is answered   *)
(* with a validation error (400) and changes no order row and no event.    *)
(* Refuted under Spec where the owner has two rows of the code (see C6):   *)
(* the lookup raises, which is a server error and not a validation error.  *)
(***************************************************************************)
C9_Status1BothOrNeither ==
    [][(/\ last'.op = "atualizar_order"
        /\ BothOrNeither(last'.p)
        /\ \E i \in OwnRows(orders, last'.cu, last'.p) : orders[i].status = 1) =>
         Refused]_vars

(* The refusal is as C9 says wherever the lookup returns one row. *)
Status1BothOrNeither_WhenIdentified ==
    [][(Patched(1) /\ BothOrNeither(last'.p)) => Refused]_vars

(* a PATCH naming both has just been refused on an order in status 1 *)
Status1BothOrNeither_Reached ==
    /\ last.op = "atualizar_order" /\ last.code = 400
    /\ last.p.cliente_id # NULL /\ last.p.user_id # NULL
    /\ ValidProvider(last.cu, last.p.cliente_id)
    /\ Identified(orders, last.cu, last.p)
    /\ orders[TheOrder(orders, last.cu, last.p)].status = 1

(***************************************************************************)
(* C10.  A PATCH for a package code of which the actor's owner has a row  *)
(* in status 1: naming only a PRESTADOR client of the actor's owner it     *)
(* sets the row's status to 2, its cliente_id to that client and its       *)
(* handling user to the actor; naming only an ENTREGADOR user of the       *)
(* actor's owner it sets status 4 and the handling user to that user;      *)
(* either way it appends exactly one event, with tipo the new status and   *)
(* the actor.  Refuted under Spec where the owner has two rows of the code *)
(* (see C6): the lookup raises and nothing is written.                     *)
(***************************************************************************)
C10_Status1Branches ==
    [][last'.op = "atualizar_order" =>
         \A i \in OwnRows(orders, last'.cu, last'.p) :
             orders[i].status = 1 => Status1Done(i)]_vars

(* The branches are as C10 says wherever the lookup returns one row. *)
Status1Branches_WhenIdentified ==
    [][Patched(1) => Status1Done(TheOrder(orders, last'.cu, last'.p))]_vars

(* an order has just gone from 1 to 4, assigned to a driver who is not the *)
(* actor, by a single commit that wrote one event                          *)
Status1Branches_Reached ==
    /\ last.op = "atualizar_order" /\ last.code = 200 /\ last.status = 4
    /\ last.p.cliente_id = NULL /\ last.p.user_id # NULL /\ last.p.user_id # last.cu
    /\ orders[last.order_id].user_id = last.p.user_id
    /\ Len(events) >= 2
    /\ \E e \in LastEvents : LastEvents = {e} /\ e.order_id = last.order_id /\ e.tipo = 4
    /\ \E k \in 1..(Len(events) - 1) :
          \E g \in events[k] : g.order_id = last.order_id /\ g.tipo = 1

(***************************************************************************)
(* C11.  A PATCH for a package code of which the actor's owner has a row  *)
(* in status 1: naming only a client that is no client of the actor's      *)
(* owner (none at all, or one of another owner) it is answered not found   *)
(* (404); naming only a client of the owner that is not PRESTADOR it is    *)
(* answered with the type error (400); the same for naming only a user,    *)
(* with ENTREGADOR; and every such answer leaves every row and the event   *)
(* log as they were.  Refuted under Spec where the owner has two rows of   *)
(* the code (see C6): the lookup raises a server error instead.            *)
(***************************************************************************)
IsClienteOf(cu, cid) == cid \in ClienteIds /\ ClienteOwner(cid) = UserOwner(cu)

IsUserOf(cu, uid) == uid \in UserIds /\ UserOwner(uid) = UserOwner(cu)

(* the step answered this error and wrote nothing *)
RefusedWith(code) ==
    /\ last'.code = code
    /\ orders' = orders
    /\ events' = events

Status1Refusals ==
    LET p == last'.p
        cu == last'.cu
    IN  /\ (p.cliente_id # NULL /\ p.user_id = NULL) =>
              /\ ~IsClienteOf(cu, p.cliente_id) => RefusedWith(404)
              /\ (IsClienteOf(cu, p.cliente_id) /\ ClienteTipo(p.cliente_id) # "PRESTADOR") =>
                    RefusedWith(400)
        /\ (p.cliente_id = NULL /\ p.user_id # NULL) =>
              /\ ~IsUserOf(cu, p.user_id) => RefusedWith(404)
              /\ (IsUserOf(cu, p.user_id) /\ UserTipo(p.user_id) # "ENTREGADOR") =>
                    RefusedWith(400)

C11_Status1Refusals ==
    [][(/\ last'.op = "atualizar_order"
        /\ \E i \in OwnRows(orders, last'.cu, last'.p) : orders[i].status = 1) =>
         Status1Refusals]_vars

(* The refusals are as C11 says wherever the lookup returns one row. *)
Status1Refusals_WhenIdentified ==
    [][Patched(1) => Status1Refusals]_vars

(* a PATCH naming a client of another owner has just been answered 404 on *)
(* an order in status 1                                                    *)
Status1Refusals_Reached ==
    /\ last.op = "atualizar_order" /\ last.code = 404
    /\ last.p.cliente_id \in ClienteIds /\ last.p.user_id = NULL
    /\ ClienteOwner(last.p.cliente_id) # UserOwner(last.cu)
    /\ Identified(orders, last.cu, last.p)
    /\ orders[TheOrder(orders, last.cu, last.p)].status = 1

(***************************************************************************)
(* C12.  A PATCH for a package code of which the actor's owner has a row  *)
(* in status 3 fails when it names no user, a user that is no user of the  *)
(* actor's owner, or a user that is not ENTREGADOR; and it then changes no *)
(* row of any owner and appends no event.                                  *)
(***************************************************************************)
C12_Status3Refusals ==
    [][(/\ last'.op = "atualizar_order"
        /\ \E i \in OwnRows(orders, last'.cu, last'.p) : orders[i].status = 3
        /\ \/ last'.p.user_id = NULL
           \/ ~IsUserOf(last'.cu, last'.p.user_id)
           \/ UserTipo(last'.p.user_id) # "ENTREGADOR") =>
         /\ last'.code >= 400
         /\ orders' = orders
         /\ events' = events]_vars

(* a PATCH naming a driver of another owner has just been refused on an    *)
(* order in status 3 whose package code another owner holds too            *)
C12_Witness ==
    /\ last.op = "atualizar_order" /\ last.code = 404
    /\ last.p.user_id \in UserIds
    /\ UserOwner(last.p.user_id) # UserOwner(last.cu)
    /\ UserTipo(last.p.user_id) = "ENTREGADOR"
    /\ Identified(orders, last.cu, last.p)
    /\ orders[TheOrder(orders, last.cu, last.p)].status = 3
    /\ \E j \in SelectCodigo(orders, last.p.codigo_pacote) :
          orders[j].owner_id # UserOwner(last.cu) /\ orders[j].status = 3

(***************************************************************************)
(* C13.  A PATCH for a package code of which the actor's owner has a row  *)
(* in status 2, 4 or 5 is answered with the unsupported-transition error   *)
(* (400), leaves that row and every other row as they were and appends no  *)
(* event.  Refuted under Spec where the owner has two rows of the code     *)
(* (see C6): the lookup raises a server error instead.                     *)
(***************************************************************************)
C13_NoTransitionFrom245 ==
    [][(/\ last'.op = "atualizar_order"
        /\ \E i \in OwnRows(orders, last'.cu, last'.p) : orders[i].status \in {2, 4, 5}) =>
         RefusedWith(400)]_vars

(* The refusal is as C13 says wherever the lookup returns one row. *)
NoTransitionFrom245_WhenIdentified ==
    [][(Patched(2) \/ Patched(4) \/ Patched(5)) => RefusedWith(400)]_vars

(* a PATCH has just been refused on a delivered order *)
NoTransitionFrom245_Reached ==
    /\ last.op = "atualizar_order" /\ last.code = 400
    /\ Identified(orders, last.cu, last.p)
    /\ orders[TheOrder(orders, last.cu, last.p)].status = 5

(***************************************************************************)
(* C14.  registro-entrega called by an actor who is not ENTREGADOR is      *)
(* answered forbidden (403), whether or not the package code exists or has *)
(* a row in status 2 or 4, and changes no order row and no event.          *)
(***************************************************************************)
C14_EntregaForbidden ==
    [][(last'.op = "registro_entrega" /\ UserTipo(last'.cu) # "ENTREGADOR") =>
         RefusedWith(403)]_vars

(* an ADMIN has just been refused on a package code that has a row in      *)
(* status 2 or 4                                                           *)
C14_Witness ==
    /\ last.op = "registro_entrega" /\ last.code = 403
    /\ UserTipo(last.cu) = "ADMIN"
    /\ \E i \in SelectCodigo(orders, last.p.codigo_pacote) : orders[i].status \in {2, 4}

(***************************************************************************)
(* C15.  registro-entrega called by an ENTREGADOR fails, changing no row  *)
(* and appending no event, whenever no row of the package code, of any     *)
(* owner, is in status 2 or 4: when there is no row of the code and when   *)
(* all its rows are in status 0, 1, 3 or 5.                                *)
(***************************************************************************)
C15_EntregaNotEligible ==
    [][(/\ last'.op = "registro_entrega"
        /\ UserTipo(last'.cu) = "ENTREGADOR"
        /\ \A i \in SelectCodigo(orders, last'.p.codigo_pacote) : orders[i].status \notin {2, 4}) =>
         /\ last'.code >= 400
         /\ orders' = orders
         /\ events' = events]_vars

(* a driver has just been refused on a package code whose rows, of two     *)
(* owners, are in status 3 and 5                                           *)
C15_Witness ==
    /\ last.op = "registro_entrega" /\ last.code = 400
    /\ UserTipo(last.cu) = "ENTREGADOR"
    /\ \E i, j \in SelectCodigo(orders, last.p.codigo_pacote) :
          /\ orders[i].owner_id # orders[j].owner_id
          /\ orders[i].status = 5 /\ orders[j].status = 3

(* a driver has just been answered not found on a package code of no row *)
EntregaNoRow_Reached ==
    /\ last.op = "registro_entrega" /\ last.code = 404
    /\ orders # <<>>
    /\ SelectCodigo(orders, last.p.codigo_pacote) = {}

(***************************************************************************)
(* C16.  A successful registro-entrega returns a row of the acting        *)
(* driver's owner when the package code has one, and otherwise the row its *)
(* select returned first; the returned row has status 5.                   *)
(***************************************************************************)
C16_EntregaReturns ==
    [][(last'.op = "registro_entrega" /\ last'.code = 200) =>
         LET ids == SelectCodigo(orders, last'.p.codigo_pacote)
             own == {i \in ids : orders[i].owner_id = UserOwner(last'.cu)}
         IN  /\ last'.first \in ids
             /\ own # {} => last'.order_id \in own
             /\ own = {} => last'.order_id = last'.first
             /\ orders'[last'.order_id].status = 5
             /\ last'.status = 5]_vars

(* a delivery has just returned the driver's owner's row although the      *)
(* select returned another owner's row first                               *)
C16_Witness ==
    /\ last.op = "registro_entrega" /\ last.code = 200
    /\ last.order_id # last.first
    /\ orders[last.order_id].owner_id = UserOwner(last.cu)
    /\ orders[last.first].owner_id # UserOwner(last.cu)
    /\ orders[last.order_id].status = 5

(* a delivery by a driver whose owner holds no row of the code has just    *)
(* returned the row the select returned first, which is not the oldest     *)
EntregaFirstRow_Reached ==
    /\ last.op = "registro_entrega" /\ last.code = 200
    /\ last.order_id = last.first
    /\ \A i \in SelectCodigo(orders, last.p.codigo_pacote) :
          orders[i].owner_id # UserOwner(last.cu)
    /\ \E i \in SelectCodigo(orders, last.p.codigo_pacote) : i < last.first

(***************************************************************************)
(* C17.  A successful creation adds exactly one order row and appends     *)
(* exactly one event, for that row, whose tipo is the row's initial        *)
(* status: POST /varredura-ml creates the row in status 0 with no handling *)
(* user and an event of tipo 0 with no actor; POST /create-order creates   *)
(* the row in status 3 handled by the actor and an event of tipo 3 with    *)
(* the actor; the event's owner_id is the creator's owner in both.  It     *)
(* holds under Spec and is refuted under SpecConc: the varredura handler   *)
(* reads the tipo of its event from the row after db.refresh, and a PATCH  *)
(* committed between its two commits has changed the status by then.       *)
(***************************************************************************)
C17_Creation ==
    [][/\ Len(orders') <= Len(orders) + 1
       /\ Len(orders') = Len(orders) + 1 =>
             LET n == orders'[Len(orders')]
             IN  /\ \A i \in DOMAIN orders : orders'[i] = orders[i]
                 /\ \/ n.status = 0 /\ n.user_id = NULL
                    \/ n.status = 3 /\ n.user_id \in UserIds /\ UserOwner(n.user_id) = n.owner_id
       /\ (last' # last /\ last'.code = 201) =>
             LET direct == last'.op = "criar_order"
                 st == IF direct THEN 3 ELSE 0
                 actor == IF direct THEN last'.cu ELSE NULL
                 n == orders'[last'.order_id]
             IN  /\ n.owner_id = UserOwner(last'.cu)
                 /\ n.codigo_pacote = last'.p.codigo_pacote
                 /\ Len(orders') = Len(orders) + 1 =>
                       /\ last'.order_id = Len(orders')
                       /\ n.cliente_id = last'.p.cliente_id
                       /\ n.status = st
                       /\ n.user_id = actor
                 /\ Len(events') = Len(events) + 1
                 /\ \E e \in NewEvents :
                       /\ NewEvents = {e}
                       /\ e.order_id = last'.order_id
                       /\ e.tipo = st
                       /\ e.actor_user_id = actor
                       /\ e.owner_id = UserOwner(last'.cu)]_vars

(* a legacy creation has just followed a direct one: the log holds the     *)
(* direct one's event with its actor and the legacy one's with none        *)
Creation_Reached ==
    /\ last.op = "criar_order_varredura_ml" /\ last.code = 201
    /\ Len(orders) = 2 /\ Len(events) = 2
    /\ orders[1].status = 3 /\ orders[1].user_id # NULL
    /\ orders[2].status = 0 /\ orders[2].user_id = NULL
    /\ \E e \in events[1] : e.order_id = 1 /\ e.tipo = 3 /\ e.actor_user_id = orders[1].user_id
    /\ \E e \in events[2] : e.order_id = 2 /\ e.tipo = 0 /\ e.actor_user_id = NULL

(***************************************************************************)
(* C18.  Either creation handler answers the duplicate error (400) when a *)
(* row of the creator's owner exists for the payload's cliente_id and      *)
(* codigo_pacote, whichever handler created it, and then adds no row and   *)
(* no event; and a creation for a package code that only other owners hold *)
(* is accepted.  The step is that of a creation that reads and answers at  *)
(* once.  It holds under Spec and is refuted under SpecConc where two rows *)
(* share the triple (see C7): the duplicate check itself raises.           *)
(***************************************************************************)
C18_DuplicateRejected ==
    [][(/\ last'.op \in {"criar_order_varredura_ml", "criar_order"}
        /\ last' # last
        /\ inflight' = inflight) =>
         LET owner == UserOwner(last'.cu)
             held == {i \in DOMAIN orders : orders[i].codigo_pacote = last'.p.codigo_pacote}
         IN  /\ (\E i \in held : /\ orders[i].owner_id = owner
                                 /\ orders[i].cliente_id = last'.p.cliente_id) =>
                   RefusedWith(400)
             /\ (held # {} /\ \A i \in held : orders[i].owner_id # owner) =>
                   last'.code = 201]_vars

(* a direct creation has just been refused over a row the legacy handler   *)
(* created                                                                 *)
DuplicateRejected_Reached ==
    /\ last.op = "criar_order" /\ last.code = 400
    /\ \E i \in DOMAIN orders :
          /\ orders[i].owner_id = UserOwner(last.cu)
          /\ orders[i].cliente_id = last.p.cliente_id
          /\ orders[i].codigo_pacote = last.p.codigo_pacote
          /\ orders[i].status = 0

(* a creation has just been accepted for a package code another owner held *)
CreationOtherOwner_Reached ==
    /\ last.code = 201
    /\ Len(orders) >= 2
    /\ orders[Len(orders)].codigo_pacote = orders[1].codigo_pacote
    /\ \A i \in 1..(Len(orders) - 1) : orders[i].owner_id # orders[Len(orders)].owner_id

(***************************************************************************)
(* C19.  In every step a PATCH /update-order or a registro-entrega        *)
(* commits, each row the step wrote gets exactly one new event, whose tipo *)
(* is the status the row now has, and a row the step did not write gets    *)
(* none.                                                                   *)
(***************************************************************************)
C19_OneEventPerStatusWrite ==
    [][last'.op \in {"atualizar_order", "registro_entrega"} =>
         \A i \in DOMAIN orders :
             LET evs == {e \in NewEvents : e.order_id = i}
             IN  IF orders'[i] # orders[i]
                 THEN /\ Cardinality(evs) = 1
                      /\ \A e \in evs : e.tipo = orders'[i].status
                 ELSE evs = {}]_vars

(* a fan-out has just written a row that was in status 0 and a row that    *)
(* was in status 3, with one event of tipo 4 each, and left a row of       *)
(* another package code alone                                              *)
C19_Witness ==
    /\ last.op = "atualizar_order" /\ last.code = 200 /\ last.status = 4
    /\ Len(orders) = 3 /\ Len(events) = 4
    /\ \E i, j, k \in DOMAIN orders :
          /\ orders[i].status = 4 /\ orders[j].status = 4
          /\ orders[k].codigo_pacote # last.p.codigo_pacote
          /\ \E a \in 1..3 : \E e \in events[a] : e.order_id = i /\ e.tipo = 0
          /\ \E a \in 1..3 : \E e \in events[a] : e.order_id = j /\ e.tipo = 3
          /\ LastEvents = {e \in LastEvents : e.order_id \in {i, j} /\ e.tipo = 4}
          /\ Cardinality(LastEvents) = 2

(***************************************************************************)
(* C20.  The event log is append-only and no order row is deleted: every  *)
(* step keeps every event it found, with the same fields and at the same   *)
(* place in the log, and keeps every order row under its order_id.         *)
(***************************************************************************)
C20_AppendOnly ==
    [][/\ Len(events') >= Len(events)
       /\ \A k \in 1..Len(events) : events'[k] = events[k]
       /\ Len(orders') >= Len(orders)
       /\ \A i \in DOMAIN orders : orders'[i].order_id = orders[i].order_id]_vars

(* one order has events from three commits in the log: its creation, its   *)
(* triage and its assignment                                               *)
C20_Witness ==
    /\ Len(events) >= 3
    /\ \E i \in DOMAIN orders :
          /\ \E e \in events[1] : e.order_id = i /\ e.tipo = 0
          /\ \E e \in events[2] : e.order_id = i /\ e.tipo = 1
          /\ \E e \in events[3] : e.order_id = i /\ e.tipo \in {2, 4}

(***************************************************************************)
(* C21.  No commit takes the atualizado_em of an order row backwards: in   *)
(* every step, every row that exists keeps or raises its atualizado_em.    *)
(* It holds under Spec.  Refuted under SpecConc: each request assigns the  *)
(* clock value it read when it started, and two requests that write the    *)
(* same row may commit in the opposite order.                              *)
(***************************************************************************)
C21_AtualizadoEmMonotonic ==
    [][\A i \in DOMAIN orders : orders'[i].atualizado_em >= orders[i].atualizado_em]_vars

(***************************************************************************)
(* C22.  Delivery is uniform over a package code: in every state, when a   *)
(* row of a package code has status 5, every row of that code has status   *)
(* 5.  Refuted under Spec: a creation handler inserts a row in status 0 or *)
(* 3 for a code whose rows are delivered.                                  *)
(***************************************************************************)
C22_DeliveredTogether ==
    \A i, j \in DOMAIN orders :
        (orders[i].codigo_pacote = orders[j].codigo_pacote /\ orders[i].status = 5)
            => orders[j].status = 5

(***************************************************************************)
(* C23.  Frame of the status-3 fan-out: a PATCH /update-order that         *)
(* succeeds on a row in status 3 writes, on the rows of the package code   *)
(* that belong to other owners, status 4 and atualizado_em and nothing     *)
(* else (user_id, cliente_id and servico stay), and changes no row of      *)
(* another package code.                                                   *)
(***************************************************************************)
C23_FanOutFrame ==
    [][(/\ last'.op = "atualizar_order"
        /\ last'.code = 200
        /\ orders[last'.order_id].status = 3) =>
         \A i \in DOMAIN orders :
             /\ orders[i].codigo_pacote # last'.p.codigo_pacote => orders'[i] = orders[i]
             /\ (/\ orders[i].codigo_pacote = last'.p.codigo_pacote
                 /\ orders[i].owner_id # UserOwner(last'.cu)) =>
                   orders'[i] = [orders[i] EXCEPT !.status = 4, !.atualizado_em = clock']]_vars

(* a fan-out that carried a new servico and a driver has just written the  *)
(* acting owner's row (created in status 3) and a triaged row of another    *)
(* owner, which keeps its servico and its user, and a row of another code   *)
(* is left with its older atualizado_em                                     *)
C23_Witness ==
    /\ last.op = "atualizar_order" /\ last.code = 200 /\ last.status = 4
    /\ last.p.servico = "s2" /\ last.p.user_id # NULL
    /\ Cardinality(LastEvents) = 2
    /\ \E i, j, k \in DOMAIN orders :
          /\ i = last.order_id
          /\ \E e \in AllEvents(events) : e.order_id = i /\ e.tipo = 3
          /\ orders[i].servico = "s2" /\ orders[i].user_id = last.p.user_id
          /\ orders[j].codigo_pacote = orders[i].codigo_pacote
          /\ orders[j].owner_id # orders[i].owner_id
          /\ orders[j].status = 4 /\ orders[j].atualizado_em = clock
          /\ orders[j].servico = "s1"
          /\ orders[j].user_id \notin {NULL, last.p.user_id}
          /\ orders[k].codigo_pacote # orders[i].codigo_pacote
          /\ orders[k].atualizado_em < clock

(***************************************************************************)
(* C24.  A PATCH /update-order or a registro-entrega that answers an       *)
(* error leaves the order rows and the event log as they were; the servico *)
(* that a failing PATCH assigned before it looked at the status is not     *)
(* persisted.                                                              *)
(***************************************************************************)
C24_ErrorsLeaveTablesAlone ==
    [][(/\ last'.op \in {"atualizar_order", "registro_entrega"}
        /\ last'.code >= 400) =>
         (orders' = orders /\ events' = events)]_vars

(* a PATCH that carried a new servico has just been refused after its      *)
(* lookup found the one row of its owner and code, whose servico is still  *)
(* the one it was created with                                             *)
C24_Witness ==
    /\ last.op = "atualizar_order" /\ last.code = 400
    /\ last.p.servico = "s2"
    /\ Cardinality(OwnRows(orders, last.cu, last.p)) = 1
    /\ \A i \in OwnRows(orders, last.cu, last.p) :
          orders[i].servico = "s1" /\ orders[i].status \in {1, 3, 5}

(***************************************************************************)
(* C25.  In every state every order row has a status in 0..5 and every    *)
(* event a tipo in 0..5.                                                   *)
(***************************************************************************)
C25_StatusRange ==
    /\ \A i \in DOMAIN orders : orders[i].status \in 0..5
    /\ \A e \in AllEvents(events) : e.tipo \in 0..5

(* an order has gone from status 0 to 1, 2 and 5, with an event of each    *)
(* tipo in the log, beside an order created in status 3                    *)
C25_Witness ==
    /\ \E i \in DOMAIN orders :
          /\ orders[i].status = 5
          /\ \A t \in {0, 1, 2, 5} :
                \E e \in AllEvents(events) : e.order_id = i /\ e.tipo = t
    /\ \E j \in DOMAIN orders :
          /\ orders[j].status = 3
          /\ \E e \in AllEvents(events) : e.order_id = j /\ e.tipo = 3

(***************************************************************************)
(* C26.  In every state the owner_id of every event is the owner_id of the *)
(* order row it references, also for the events a fan-out or a             *)
(* registro-entrega adds for rows of other owners, whose actor_user_id is  *)
(* the acting user.                                                        *)
(***************************************************************************)
C26_EventOwnerIsRowOwner ==
    \A e \in AllEvents(events) :
        /\ e.order_id \in DOMAIN orders
        /\ e.owner_id = orders[e.order_id].owner_id

(* the log holds an event of a fan-out and an event of a delivery, each    *)
(* for a row of an owner who is not the owner of the actor                 *)
C26_Witness ==
    \E e, f \in AllEvents(events) :
        /\ e.tipo = 4 /\ f.tipo = 5
        /\ e.actor_user_id # NULL /\ f.actor_user_id # NULL
        /\ UserOwner(e.actor_user_id) # orders[e.order_id].owner_id
        /\ UserOwner(f.actor_user_id) # orders[f.order_id].owner_id

(***************************************************************************)
(* Vocabulary of the flow engine: the map a slug text names, and what a    *)
(* call of the engine has done when the text s is taken as its slug.       *)
(***************************************************************************)
FlowSlugs == {<<"1">>, <<"2">>, <<"3">>, <<"4">>}

FlowMap(s) ==
    IF s = <<"1">> THEN fluxo_1
    ELSE IF s = <<"2">> THEN fluxo_2
    ELSE IF s = <<"3">> THEN fluxo_3
    ELSE fluxo_4

FlowRefused ==
    /\ last'.code >= 400
    /\ orders' = orders
    /\ events' = events

FlowAdvanced(i, novo_status) ==
    /\ last'.code = 200
    /\ orders'[i].status = novo_status
    /\ orders'[i].user_id = last'.cu
    /\ OneEvent(i, novo_status)

FlowEngineStep(s) ==
    LET i == last'.arg
    IN  IF s \in FlowSlugs /\ orders[i].status \in DOMAIN FlowMap(s)
        THEN FlowAdvanced(i, FlowMap(s)[orders[i].status])
        ELSE FlowRefused

(***************************************************************************)
(* C27.  A call of the flow engine whose owner has a slug among "1", "2",  *)
(* "3", "4" and whose order has a status in that slug's map sets the       *)
(* status to the mapped value and the handling user to the actor and adds  *)
(* exactly one event, with tipo the new status; a call with any other      *)
(* slug, or with a status that is not in the map, fails and changes no     *)
(* order row and no event.  Refuted under SpecFluxo when slug is           *)
(* owner.slug as stored: an owner with no slug is served by flow 1.        *)
(***************************************************************************)
C27_FlowEngine ==
    [][last'.op = "aplicar_transicao_status" => FlowEngineStep(last'.slug)]_vars

(* C27 as amended: the same statement of the slug the engine reads at line *)
(* 86, which is "1" when owner.slug is null or empty and owner.slug        *)
(* without the white space around it otherwise.                            *)
C27_FlowEngine_SlugAsRead ==
    [][last'.op = "aplicar_transicao_status" =>
         FlowEngineStep(slug_of([slug |-> last'.slug]))]_vars

(* the engine has just taken an order from status 2 to 5 for an owner      *)
(* whose slug is " 2", after the order went from 0 to 1 and from 1 to 2    *)
C27_Witness ==
    /\ last.op = "aplicar_transicao_status" /\ last.code = 200
    /\ last.slug = <<" ", "2">>
    /\ orders[last.arg].status = 5 /\ orders[last.arg].user_id = last.cu
    /\ \A t \in {0, 1, 2} :
          \E e \in AllEvents(events) : e.order_id = last.arg /\ e.tipo = t
    /\ LastEvents = {e \in LastEvents : e.order_id = last.arg /\ e.tipo = 5}

(* the engine has just refused a slug that names no flow, and a status     *)
(* that the flow of the slug does not hold                                 *)
FlowUnknownSlug_Reached ==
    /\ last.op = "aplicar_transicao_status" /\ last.code = 400
    /\ last.slug \in {<<"5">>, <<" ">>}

FlowNoTransition_Reached ==
    /\ last.op = "aplicar_transicao_status" /\ last.code = 400
    /\ last.slug = <<"3">> /\ orders[last.arg].status = 3

(* the engine has just advanced an order for an owner with no slug *)
FlowDefaultSlug_Reached ==
    /\ last.op = "aplicar_transicao_status" /\ last.code = 200
    /\ last.slug \in {None, <<>>}

(***************************************************************************)
(* C28.  GET / answers with exactly the order rows whose owner_id is the   *)
(* owner of the acting user.  GET /{order_id} answers with the row of that *)
(* order_id when the row belongs to the owner of the acting user, and with *)
(* 404 otherwise, also when a row of another owner has that order_id.      *)
(* Neither changes a table.                                                *)
(***************************************************************************)
C28_ReadsAreOwnerScoped ==
    [][/\ last'.op = "listar_orders" =>
            /\ last'.code = 200
            /\ last'.rows = {o \in {orders[i] : i \in DOMAIN orders} :
                                o.owner_id = UserOwner(last'.cu)}
            /\ UNCHANGED <<orders, events>>
       /\ last'.op = "obter_order" =>
            /\ IF /\ last'.arg \in DOMAIN orders
                  /\ orders[last'.arg].owner_id = UserOwner(last'.cu)
               THEN /\ last'.code = 200
                    /\ last'.order_id = last'.arg
                    /\ last'.status = orders[last'.arg].status
               ELSE /\ last'.code = 404
                    /\ last'.order_id = NULL
            /\ UNCHANGED <<orders, events>>]_vars

(* GET /{order_id} has just answered 404 for the order_id of a row that    *)
(* belongs to another owner, while the acting owner has a row of its own   *)
C28_Witness ==
    /\ last.op = "obter_order" /\ last.code = 404
    /\ last.arg \in DOMAIN orders
    /\ orders[last.arg].owner_id # UserOwner(last.cu)
    /\ \E i \in DOMAIN orders : orders[i].owner_id = UserOwner(last.cu)

(* GET / has just returned two rows of one owner and left out a row of the *)
(* other                                                                   *)
ListarOrders_Reached ==
    /\ last.op = "listar_orders"
    /\ Cardinality(last.rows) = 2
    /\ Len(orders) = 3

(* GET /{order_id} has just returned a row of the acting owner *)
ObterOrder_Reached ==
    /\ last.op = "obter_order" /\ last.code = 200
    /\ orders[last.order_id].owner_id = UserOwner(last.cu)
    /\ \E i \in DOMAIN orders : orders[i].owner_id # UserOwner(last.cu)

(***************************************************************************)
(* C29.  In every state every order row in status 4 has a user_id that is  *)
(* not null and names an ENTREGADOR of the row's own owner.  Refuted under *)
(* Spec: the fan-out writes status 4 on the rows of the other owners and   *)
(* leaves their user_id as it was.                                         *)
(***************************************************************************)
C29_AssignedHasDriver ==
    \A i \in DOMAIN orders :
        orders[i].status = 4 =>
            /\ orders[i].user_id \in UserIds
            /\ UserTipo(orders[i].user_id) = "ENTREGADOR"
            /\ UserOwner(orders[i].user_id) = orders[i].owner_id

(* C29 as amended: a PATCH /update-order that takes the row of its own     *)
(* owner to status 4 leaves on that row a user_id that is not null and     *)
(* names an ENTREGADOR of the row's owner.                                 *)
C29_AssignedOwnRowHasDriver ==
    [][(/\ last'.op = "atualizar_order"
        /\ last'.code = 200
        /\ last'.status = 4) =>
         LET o == orders'[last'.order_id]
         IN  /\ o.owner_id = UserOwner(last'.cu)
             /\ o.status = 4
             /\ o.user_id \in UserIds
             /\ UserTipo(o.user_id) = "ENTREGADOR"
             /\ UserOwner(o.user_id) = o.owner_id]_vars

(* a fan-out has just assigned a driver of the acting owner to that        *)
(* owner's row and taken a row of another owner, that has no user, to      *)
(* status 4                                                                *)
C29_Witness ==
    /\ last.op = "atualizar_order" /\ last.code = 200 /\ last.status = 4
    /\ orders[last.order_id].user_id = last.p.user_id
    /\ UserTipo(last.p.user_id) = "ENTREGADOR"
    /\ \E j \in DOMAIN orders :
          /\ orders[j].owner_id # UserOwner(last.cu)
          /\ orders[j].status = 4
          /\ orders[j].user_id = NULL

(* a PATCH has just taken a row from status 1 to 4 *)
AssignedFromTriage_Reached ==
    /\ last.op = "atualizar_order" /\ last.code = 200 /\ last.status = 4
    /\ \E e \in AllEvents(events) : e.order_id = last.order_id /\ e.tipo = 1
    /\ orders[last.order_id].user_id = last.p.user_id

(***************************************************************************)
(* C30.  A creation is all or nothing: in every committed state every      *)
(* order row has at least one event that references it.  It holds under    *)
(* Spec.  Refuted under SpecConc: a creation handler commits the row,      *)
(* then the event, in two transactions, and the state between them is      *)
(* committed.                                                              *)
(***************************************************************************)
C30_CreationAllOrNothing ==
    \A i \in DOMAIN orders : \E e \in AllEvents(events) : e.order_id = i

(***************************************************************************)
(* C31.  In every state with no request in flight, the event appended last *)
(* for an order row has the tipo that is the row's status.  It holds under *)
(* Spec.  Refuted under SpecConc: a creation commits its row, another      *)
(* request advances the row and logs it, and the creation then commits its *)
(* first event behind that one.                                            *)
(***************************************************************************)
C31_LastEventIsStatus ==
    inflight = {} =>
        \A i \in DOMAIN orders : \A k \in 1..Len(events) :
            (\A k2 \in (k + 1)..Len(events) : \A f \in events[k2] : f.order_id # i) =>
                \A e \in events[k] : e.order_id = i => e.tipo = orders[i].status

(***************************************************************************)
(* C32.  PATCH /update-order is scoped to the owner of the acting user     *)
(* outside the status-3 fan-out.  When that owner has no row of the        *)
(* payload's code the request answers 404 and changes nothing, whatever    *)
(* rows other owners have of the code.  When it succeeds on a row in       *)
(* status 0 or 1 it writes that row and no other, and adds no event for    *)
(* another row.                                                            *)
(***************************************************************************)
C32_OwnerScoped ==
    [][last'.op = "atualizar_order" =>
         /\ (\A i \in DOMAIN orders :
                ~(/\ orders[i].owner_id = UserOwner(last'.cu)
                  /\ orders[i].codigo_pacote = last'.p.codigo_pacote)) =>
               /\ last'.code = 404
               /\ orders' = orders
               /\ events' = events
         /\ (last'.code = 200 /\ orders[last'.order_id].status \in {0, 1}) =>
               /\ orders[last'.order_id].owner_id = UserOwner(last'.cu)
               /\ orders'[last'.order_id] # orders[last'.order_id]
               /\ \A i \in DOMAIN orders \ {last'.order_id} : orders'[i] = orders[i]
               /\ \A e \in NewEvents : e.order_id = last'.order_id]_vars

(* a PATCH has just been answered 404 for a code of which only another     *)
(* owner has a row                                                         *)
C32_Witness ==
    /\ last.op = "atualizar_order" /\ last.code = 404
    /\ \E i \in DOMAIN orders : orders[i].codigo_pacote = last.p.codigo_pacote
    /\ \A i \in DOMAIN orders :
          orders[i].codigo_pacote = last.p.codigo_pacote =>
              orders[i].owner_id # UserOwner(last.cu)

(* a PATCH has just taken its owner's row from status 0 to 1 while another *)
(* owner's row of the same code stays in status 0 with its creation event  *)
(* alone                                                                   *)
OwnerScopedAdvance_Reached ==
    /\ last.op = "atualizar_order" /\ last.code = 200 /\ last.status = 1
    /\ \E j \in DOMAIN orders :
          /\ orders[j].codigo_pacote = last.p.codigo_pacote
          /\ orders[j].owner_id # UserOwner(last.cu)
          /\ orders[j].status = 0
          /\ Cardinality({e \in AllEvents(events) : e.order_id = j}) = 1

(***************************************************************************)
(* C33.  The flow engine always advances: every call that succeeds leaves  *)
(* the order in a status greater than the one it found, so that calls      *)
(* under one slug end in a status the slug's map does not hold.  Refuted   *)
(* under SpecFluxo: fluxo_3 maps status 1 to status 1.                     *)
(***************************************************************************)
C33_FlowAdvances ==
    [][(last'.op = "aplicar_transicao_status" /\ last'.code = 200) =>
         orders'[last'.arg].status > orders[last'.arg].status]_vars

(***************************************************************************)
(* C34.  A delivery is not repeatable: a registro-entrega by a driver for  *)
(* the package code of the successful registro-entrega answered just       *)
(* before it fails with 400, adds no event and changes no row.             *)
(***************************************************************************)
C34_EntregaNotRepeatable ==
    [][(/\ last.op = "registro_entrega" /\ last.code = 200
        /\ last'.op = "registro_entrega"
        /\ last'.p.codigo_pacote = last.p.codigo_pacote
        /\ UserTipo(last'.cu) = "ENTREGADOR") =>
         /\ last'.code = 400
         /\ orders' = orders
         /\ events' = events]_vars

(* a driver of another owner has just been refused a second delivery of a  *)
(* package code: the last commit is the delivery of the two rows of the    *)
(* code                                                                    *)
C34_Witness ==
    /\ last.op = "registro_entrega" /\ last.code = 400
    /\ Cardinality(LastEvents) = 2
    /\ \A e \in LastEvents :
          /\ e.tipo = 5
          /\ e.actor_user_id # last.cu
          /\ UserOwner(e.actor_user_id) # UserOwner(last.cu)
          /\ orders[e.order_id].codigo_pacote = last.p.codigo_pacote
          /\ orders[e.order_id].status = 5
          /\ orders[e.order_id].atualizado_em = clock

(***************************************************************************)
(* C35.  In every state every order row in status 2 has a cliente_id that  *)
(* names a PRESTADOR client of the row's own owner.                        *)
(***************************************************************************)
C35_ProviderOfStatus2 ==
    \A i \in DOMAIN orders :
        orders[i].status = 2 =>
            /\ orders[i].cliente_id \in ClienteIds
            /\ ClienteTipo(orders[i].cliente_id) = "PRESTADOR"
            /\ ClienteOwner(orders[i].cliente_id) = orders[i].owner_id

(* a PATCH has just taken a row to status 2 with the client it named,      *)
(* beside a row of the same code that another owner holds for a client of  *)
(* its own                                                                 *)
C35_Witness ==
    /\ last.op = "atualizar_order" /\ last.code = 200 /\ last.status = 2
    /\ orders[last.order_id].cliente_id = last.p.cliente_id
    /\ \E j \in DOMAIN orders :
          /\ orders[j].codigo_pacote = last.p.codigo_pacote
          /\ orders[j].owner_id # UserOwner(last.cu)
          /\ ClienteOwner(orders[j].cliente_id) = orders[j].owner_id

(***************************************************************************)
(* Sequences of requests: the order tables that one successful PATCH       *)
(* /update-order or registro-entrega makes of a table, and all those that  *)
(* any number of them make.  The requests read the clock only to record    *)
(* it, and one value stands for all.                                       *)
(***************************************************************************)
Advances(ords, agora) ==
    {CommitOrders(ords, atualizar_order(ords, x[1], x[2], agora)) :
        x \in {y \in Requesters \X UpdateRequests :
                  ~Failed(atualizar_order(ords, y[1], y[2], agora))}}
    \cup
    UNION {{CommitOrders(ords, registro_entrega(ords, x[1], x[2], agora, perm)) :
               perm \in {q \in ResultOrders(SelectCodigo(ords, x[2].codigo_pacote)) :
                            ~Failed(registro_entrega(ords, x[1], x[2], agora, q))}} :
           x \in UserIds \X RegistroEntregaPayload}

RECURSIVE AdvanceClosure(_, _)
AdvanceClosure(S, agora) ==
    LET T == S \cup UNION {Advances(ords, agora) : ords \in S}
    IN  IF T = S THEN S ELSE AdvanceClosure(T, agora)

(***************************************************************************)
(* C36.  No order is stuck: in every state, for every order row in a       *)
(* status below 5 whose owner has an ENTREGADOR user and a PRESTADOR       *)
(* client, some sequence of successful PATCH /update-order and             *)
(* registro-entrega requests takes the row to status 5.  Refuted under     *)
(* Spec: an owner's two rows of one package code (C6) in status 0 are      *)
(* advanced by no request.                                                 *)
(***************************************************************************)
C36_NoOrderStuck ==
    \A i \in DOMAIN orders :
        (/\ orders[i].status \in 0..4
         /\ \E u \in UserIds :
               UserOwner(u) = orders[i].owner_id /\ UserTipo(u) = "ENTREGADOR"
         /\ \E c \in ClienteIds :
               ClienteOwner(c) = orders[i].owner_id /\ ClienteTipo(c) = "PRESTADOR") =>
            \E t \in AdvanceClosure({orders}, clock + 1) : t[i].status = 5

(* three rows, one of each owner for one code and one of another code, in  *)
(* statuses 0, 1 and 3: none is stuck                                      *)
NoOrderStuck_Reached ==
    /\ Len(orders) = 3
    /\ {orders[i].status : i \in DOMAIN orders} = {0, 1, 3}
    /\ \A i, j \in DOMAIN orders :
          (orders[i].owner_id = orders[j].owner_id
           /\ orders[i].codigo_pacote = orders[j].codigo_pacote) => i = j
    /\ C36_NoOrderStuck

(***************************************************************************)
(* C37.  The select by package code of the status-3 branch returns the     *)
(* row the request found first: no PATCH /update-order answers the 404 of  *)
(* lines 448-452, and one that succeeds on a row in status 3 writes that   *)
(* row and adds an event for it.                                           *)
(***************************************************************************)
C37_FanOutFindsOwnRow ==
    [][last'.op = "atualizar_order" =>
         /\ last'.detail # "Nenhuma order encontrada com esse codigo_pacote."
         /\ (last'.code = 200 /\ orders[last'.order_id].status = 3) =>
               /\ orders'[last'.order_id] # orders[last'.order_id]
               /\ orders'[last'.order_id].status = 4
               /\ \E e \in NewEvents : e.order_id = last'.order_id]_vars

(* a fan-out has just found one row of the code, the acting owner's own,   *)
(* created in status 3, and written it and one event                       *)
C37_Witness ==
    /\ last.op = "atualizar_order" /\ last.code = 200 /\ last.status = 4
    /\ SelectCodigo(orders, last.p.codigo_pacote) = {last.order_id}
    /\ \E e \in AllEvents(events) : e.order_id = last.order_id /\ e.tipo = 3
    /\ LastEvents = {e \in LastEvents : e.order_id = last.order_id /\ e.tipo = 4}
    /\ Cardinality(LastEvents) = 1
    /\ Len(events) = 2

====
